---------------------------- MODULE Spec2Model ----------------------------
(***************************************************************************)
(* A model of packages/1155-contracts/package/premint-api.ts: the          *)
(* PreminterAPI class (constructor, createPremint, getPremintData,         *)
(* isValidSignature, executePremintWithWallet) and the pure helpers        *)
(* convertPremint / encodePremintForAPI.                                   *)
(*                                                                         *)
(* Representation                                                          *)
(*   - a JS bigint is a little-endian sequence of limbs in base 2^15 with  *)
(*     no leading zero limb (0n is << >>); TLC integers are 32 bits wide,  *)
(*     2^64-1 and 777000000000000 are not.                                 *)
(*   - a decimal string is the sequence of its digits, most significant    *)
(*     first ("604800" is <<6,0,4,8,0,0>>).                                *)
(*   - an optional value is << >> (undefined) or <<v>>.                    *)
(*   - an object is a record; object spread is Spread(a, b).               *)
(***************************************************************************)
EXTENDS Integers, Sequences, FiniteSets, TLC

-----------------------------------------------------------------------------
(* bigint arithmetic *)

Base == 2^15

Undefined == << >>

Some(v) == <<v>>

\* Number -> bigint: BigInt(n) for a non-negative safe integer n.
RECURSIVE BigIntOfNumber(_)
BigIntOfNumber(n) ==
  IF n = 0 THEN << >> ELSE <<n % Base>> \o BigIntOfNumber(n \div Base)

\* a * m + c for a bigint a and 0 <= m, c < Base.
RECURSIVE MulAddSmall(_, _, _)
MulAddSmall(a, m, c) ==
  IF a = << >>
    THEN (IF c = 0 THEN << >> ELSE <<c>>)
    ELSE LET t == Head(a) * m + c
             rest == MulAddSmall(Tail(a), m, t \div Base)
         IN  IF rest = << >> /\ t % Base = 0 THEN << >> ELSE <<t % Base>> \o rest

\* BigInt(s) for a string s of decimal digits.
RECURSIVE ParseFrom(_, _)
ParseFrom(acc, s) ==
  IF s = << >> THEN acc ELSE ParseFrom(MulAddSmall(acc, 10, Head(s)), Tail(s))

BigInt(s) == ParseFrom(<< >>, s)

\* Drop the zero limbs at the most significant end.
RECURSIVE Normalize(_)
Normalize(a) ==
  IF a = << >> THEN << >>
  ELSE IF a[Len(a)] = 0 THEN Normalize(SubSeq(a, 1, Len(a) - 1))
  ELSE a

\* <<quotient limbs, remainder>> of a divided by 10, most significant limb first.
RECURSIVE DivMod10(_, _, _)
DivMod10(a, i, r) ==
  IF i = 0 THEN [q |-> << >>, r |-> r]
  ELSE LET t == r * Base + a[i]
           lo == DivMod10(a, i - 1, t % 10)
       IN  [q |-> lo.q \o <<t \div 10>>, r |-> lo.r]

\* bigint.toString(): the decimal digits, most significant first.
RECURSIVE BigIntToString(_)
BigIntToString(a) ==
  IF a = << >> THEN <<0>>
  ELSE LET d == DivMod10(a, Len(a), 0)
           q == Normalize(d.q)
       IN  IF q = << >> THEN <<d.r>> ELSE BigIntToString(q) \o <<d.r>>

\* a + b for bigints, with carry c.
RECURSIVE AddCarry(_, _, _)
AddCarry(a, b, c) ==
  IF a = << >> /\ b = << >>
    THEN (IF c = 0 THEN << >> ELSE <<c>>)
    ELSE LET x == IF a = << >> THEN 0 ELSE Head(a)
             y == IF b = << >> THEN 0 ELSE Head(b)
             t == x + y + c
         IN  <<t % Base>> \o
             AddCarry(IF a = << >> THEN << >> ELSE Tail(a),
                      IF b = << >> THEN << >> ELSE Tail(b), t \div Base)

BigAdd(a, b) == Normalize(AddCarry(a, b, 0))

\* a * b for bigints (the * operator on bigint operands).
RECURSIVE BigMul(_, _)
BigMul(a, b) ==
  IF b = << >> \/ a = << >> THEN << >>
  ELSE BigAdd(MulAddSmall(a, Head(b), 0),
              LET hi == BigMul(a, Tail(b))
              IN  IF hi = << >> THEN << >> ELSE <<0>> \o hi)

-----------------------------------------------------------------------------
(* objects *)

\* {...a, ...b}: the properties of a, overridden and extended by those of b.
Spread(a, b) ==
  [k \in DOMAIN a \cup DOMAIN b |-> IF k \in DOMAIN b THEN b[k] ELSE a[k]]

\* A presence test in place of the truthiness test: 0 counts as a value.
FalsyNumberPresence(o) == o = Undefined

\* !v for an optional number v: undefined and 0 are falsy.
FalsyNumber(o) == o = Undefined \/ o[1] = 0

\* String.prototype.toLowerCase on the addresses of the model.
LowerCaseTable ==
  ("0xC011Ec7A" :> "0xc011ec7a") @@ ("0xC011Ec7B" :> "0xc011ec7b")

toLowerCase(s) == IF s \in DOMAIN LowerCaseTable THEN LowerCaseTable[s] ELSE s

-----------------------------------------------------------------------------
(* chains, network table, generated address tables *)

zora_id == 7777777

zoraTestnet_id == 999

foundry_id == 31337

SupportedChainIds == {zora_id, zoraTestnet_id, foundry_id}

\* The chain ids a caller may construct the API with: the three tabled ones
\* and one that is not tabled (Ethereum mainnet).
ChainIds == SupportedChainIds \cup {1}

ZORA_MAINNET == "ZORA-MAINNET"

ZORA_TESTNET == "ZORA-TESTNET"

ZORA_API_BASE == "https://api.zora.co/premint/"

ZORA_PREMINT_API_BASE == "https://api.zora.co/premint/"

networkConfigByChain ==
  (zora_id :>
     [chainId |-> zora_id, isTestnet |-> FALSE,
      zoraPathChainName |-> "zora", zoraBackendChainName |-> ZORA_MAINNET])
  @@
  (zoraTestnet_id :>
     [chainId |-> zora_id, isTestnet |-> TRUE,
      zoraPathChainName |-> "zora", zoraBackendChainName |-> ZORA_TESTNET])
  @@
  (foundry_id :>
     [chainId |-> foundry_id, isTestnet |-> TRUE,
      zoraPathChainName |-> "zora", zoraBackendChainName |-> ZORA_TESTNET])

\* ./wagmiGenerated: the deployed premint executor, per chain id.
zoraCreator1155PremintExecutorImplAddress ==
  (zora_id :> "0xExecutor@7777777") @@ (zoraTestnet_id :> "0xExecutor@999")
  @@ (foundry_id :> "0xExecutor@31337")

\* ./wagmiGenerated: the deployed fixed price sale strategy, per chain id.
zoraCreatorFixedPriceSaleStrategyAddress ==
  (zora_id :> "0xFixedPrice@7777777") @@ (zoraTestnet_id :> "0xFixedPrice@999")
  @@ (foundry_id :> "0xFixedPrice@31337")

-----------------------------------------------------------------------------
(* mint arguments *)

OPEN_EDITION_MINT_SIZE == <<1,8,4,4,6,7,4,4,0,7,3,7,0,9,5,5,1,6,1,5>>

DefaultMintArguments ==
  [maxSupply |-> BigInt(OPEN_EDITION_MINT_SIZE),
   maxTokensPerAddress |-> << >>,
   pricePerToken |-> << >>,
   mintDuration |-> BigIntOfNumber(60 * 60 * 24 * 7),
   mintStart |-> << >>,
   royaltyMintSchedule |-> 0,
   royaltyBPS |-> 1000]

\* The tokenConfig part of convertPremint: the five string fields parsed.
convertTokenConfig(tokenConfig) ==
  Spread(tokenConfig,
         [maxSupply |-> BigInt(tokenConfig.maxSupply),
          pricePerToken |-> BigInt(tokenConfig.pricePerToken),
          mintStart |-> BigInt(tokenConfig.mintStart),
          mintDuration |-> BigInt(tokenConfig.mintDuration),
          maxTokensPerAddress |-> BigInt(tokenConfig.maxTokensPerAddress)])

convertPremint(premint) ==
  Spread(premint, [tokenConfig |-> convertTokenConfig(premint.tokenConfig)])

\* Number(x).toString() in place of x.toString(): 2^64-1 is not a safe
\* integer and prints as 18446744073709552000.
encodeTokenConfigViaNumber(tokenConfig) ==
  LET print(x) == IF x = BigInt(OPEN_EDITION_MINT_SIZE)
                    THEN <<1,8,4,4,6,7,4,4,0,7,3,7,0,9,5,5,2,0,0,0>>
                    ELSE BigIntToString(x)
  IN  Spread(tokenConfig,
             [maxSupply |-> print(tokenConfig.maxSupply),
              pricePerToken |-> print(tokenConfig.pricePerToken),
              mintStart |-> print(tokenConfig.mintStart),
              mintDuration |-> print(tokenConfig.mintDuration),
              maxTokensPerAddress |-> print(tokenConfig.maxTokensPerAddress)])

\* The tokenConfig part of encodePremintForAPI: the five bigint fields printed.
encodeTokenConfig(tokenConfig) ==
  Spread(tokenConfig,
         [maxSupply |-> BigIntToString(tokenConfig.maxSupply),
          pricePerToken |-> BigIntToString(tokenConfig.pricePerToken),
          mintStart |-> BigIntToString(tokenConfig.mintStart),
          mintDuration |-> BigIntToString(tokenConfig.mintDuration),
          maxTokensPerAddress |-> BigIntToString(tokenConfig.maxTokensPerAddress)])

encodePremintForAPI(premintConfig) ==
  Spread([k \in DOMAIN premintConfig \ {"tokenConfig"} |-> premintConfig[k]],
         [tokenConfig |-> encodeTokenConfig(premintConfig.tokenConfig)])

-----------------------------------------------------------------------------
(* PreminterAPI: construction and the synchronous helpers *)

\* new PreminterAPI(chain): the instance, or the error the constructor throws.
Constructor(chain) ==
  IF chain.id \notin DOMAIN networkConfigByChain
    THEN [ok |-> FALSE, error |-> <<"Not configured for chain", chain.id>>]
    ELSE [ok |-> TRUE,
          this |-> [rewardPerToken |-> BigInt(<<7,7,7,0,0,0,0,0,0,0,0,0,0,0,0>>),
                    chain |-> chain,
                    network |-> networkConfigByChain[chain.id]]]

getExecutorAddress(this) == zoraCreator1155PremintExecutorImplAddress[999]

getFixedPriceMinterAddress(this) == zoraCreatorFixedPriceSaleStrategyAddress[999]

\* The token config createPremint builds from the defaults, the context and
\* the caller's mint settings.
BuildTokenConfig(this, account, mint) ==
  Spread(Spread(DefaultMintArguments,
                [fixedPriceMinter |-> getFixedPriceMinterAddress(this),
                 royaltyRecipient |-> account]),
         mint)

\* ./preminter: the EIP-712 typed data for a premint config.
preminterTypedDataDefinition(verifyingContract, premintConfig, chainId) ==
  [domain |-> [name |-> "Preminter", version |-> "1",
               chainId |-> chainId, verifyingContract |-> verifyingContract],
   primaryType |-> "PremintConfig",
   message |-> premintConfig]

-----------------------------------------------------------------------------
(* bounds and the values the environment may supply *)

\* Largest uid a caller or the registry supplies.
MaxUid == 2

\* Largest quantityToMint a caller asks for.
MaxQuantity == 3

Insts == {"api"}

Flows == {1, 2}

Accounts == {"0xCreator"}

Collections ==
  {[contractAdmin |-> "0xCreator", contractURI |-> "ipfs://c", contractName |-> "Test"]}

\* What getContractAddress may answer (checksummed, mixed case).
ContractAddresses == DOMAIN LowerCaseTable

Signatures == {"0xSig1", "0xSig2"}

HttpStatuses == {200, 500}

OptBool == {Undefined, Some(TRUE), Some(FALSE)}

OptUid == {Undefined} \cup {Some(n) : n \in 0..MaxUid}

\* The mint settings a createPremint caller passes in the flow model.
MintSettings ==
  {[tokenURI |-> "ipfs://t"],
   [tokenURI |-> "ipfs://t", pricePerToken |-> BigIntOfNumber(1)],
   [tokenURI |-> "ipfs://t", fixedPriceMinter |-> "0xOwnMinter",
    royaltyRecipient |-> "0xPayee"]}

ExecutionSettings ==
  {Undefined} \cup {Some([deleted |-> d, uid |-> u]) : d \in OptBool, u \in OptUid}

-----------------------------------------------------------------------------
(* state *)

VARIABLES
  api,       \* api[i]: << >> or <<this>>, the PreminterAPI instance i
  ctorError, \* ctorError[i]: << >> or <<error>> thrown by the constructor
  active,    \* the flows that may run
  op,        \* op[f]: the method flow f is running, "idle" when none
  pc,        \* pc[f]: the await flow f is suspended at
  self,      \* self[f]: the instance flow f was called on
  args,      \* args[f]: the arguments of the call
  loc,       \* loc[f]: the local variables of the call
  calls,     \* calls[f]: the external requests issued and responses received
  result,    \* result[f]: what the call returned or threw
  pure       \* the input and outputs of the pure-function specifications

vars == <<api, ctorError, active, op, pc, self, args, loc, calls, result, pure>>

flowVars == <<op, pc, self, args, loc, calls, result>>

NoResult == [returned |-> Undefined, thrown |-> Undefined]

NoLoc == [none |-> TRUE]

NoPure == [spec |-> "none"]

Request(name, data) == [call |-> name, phase |-> "request", data |-> data]

Response(name, data) == [call |-> name, phase |-> "response", data |-> data]

This(f) == api[self[f]][1]

InitFlows ==
  /\ op = [f \in Flows |-> "idle"]
  /\ pc = [f \in Flows |-> "idle"]
  /\ self = [f \in Flows |-> "api"]
  /\ args = [f \in Flows |-> NoLoc]
  /\ loc = [f \in Flows |-> NoLoc]
  /\ calls = [f \in Flows |-> << >>]
  /\ result = [f \in Flows |-> NoResult]

Init ==
  /\ api = [i \in Insts |-> Undefined]
  /\ ctorError = [i \in Insts |-> Undefined]
  /\ active = {1}
  /\ InitFlows
  /\ pure = NoPure

\* new PreminterAPI(chain), bound to slot i.
Construct(i, chain) ==
  /\ api[i] = Undefined
  /\ ctorError[i] = Undefined
  /\ LET c == Constructor(chain)
     IN  IF c.ok
           THEN /\ api' = [api EXCEPT ![i] = Some(c.this)]
                /\ UNCHANGED ctorError
           ELSE /\ ctorError' = [ctorError EXCEPT ![i] = Some(c.error)]
                /\ UNCHANGED api
  /\ UNCHANGED <<active, flowVars, pure>>

\* The flow ends by throwing err; cs is its call log.
Throws(f, err, cs) ==
  /\ pc' = [pc EXCEPT ![f] = "done"]
  /\ result' = [result EXCEPT ![f] = [returned |-> Undefined, thrown |-> Some(err)]]
  /\ calls' = [calls EXCEPT ![f] = cs]
  /\ UNCHANGED loc

\* The flow ends by returning v.
Returns(f, v, cs) ==
  /\ pc' = [pc EXCEPT ![f] = "done"]
  /\ result' = [result EXCEPT ![f] = [returned |-> Some(v), thrown |-> Undefined]]
  /\ calls' = [calls EXCEPT ![f] = cs]
  /\ UNCHANGED loc

\* The flow issues request rq and suspends at label, with locals l.
Awaits(f, label, l, cs, rq) ==
  /\ pc' = [pc EXCEPT ![f] = label]
  /\ loc' = [loc EXCEPT ![f] = l]
  /\ calls' = [calls EXCEPT ![f] = Append(cs, rq)]
  /\ UNCHANGED result

-----------------------------------------------------------------------------
(* createPremint *)

\* fetch(...) then response.json(): what the registry may answer. ok = FALSE
\* is a rejected fetch; json = FALSE is a body response.json() rejects.
NextUidAnswers ==
  {[ok |-> TRUE, status |-> st, json |-> TRUE, body |-> [next_uid |-> u]] :
     st \in HttpStatuses, u \in OptUid}
  \cup {[ok |-> TRUE, status |-> 500, json |-> FALSE, body |-> [next_uid |-> Undefined]],
        [ok |-> FALSE, status |-> 0, json |-> FALSE, body |-> [next_uid |-> Undefined]]}

PostAnswers ==
  {[ok |-> TRUE, status |-> st, json |-> TRUE, body |-> [stored |-> TRUE]] :
     st \in HttpStatuses}
  \cup {[ok |-> TRUE, status |-> 200, json |-> FALSE, body |-> [stored |-> TRUE]],
        [ok |-> FALSE, status |-> 0, json |-> FALSE, body |-> [stored |-> FALSE]]}

\* executionSettings?.uid ?? 1: a uid made up locally when none is given.
ExplicitUidDefaulted(a) ==
  IF a.executionSettings = Undefined THEN Some(1)
  ELSE IF a.executionSettings[1].uid = Undefined THEN Some(1)
  ELSE a.executionSettings[1].uid

\* executionSettings?.uid
ExplicitUid(a) ==
  IF a.executionSettings = Undefined THEN Undefined ELSE a.executionSettings[1].uid

\* executionSettings?.deleted || false
DeletedSetting(a) ==
  IF a.executionSettings = Undefined THEN FALSE
  ELSE IF a.executionSettings[1].deleted = Undefined THEN FALSE
  ELSE a.executionSettings[1].deleted[1]

\* checkSignature read as false when the caller leaves it out.
CheckSignatureOptIn(a) == a.checkSignature = Some(TRUE)

\* checkSignature = true when the caller leaves it out
CheckSignature(a) ==
  IF a.checkSignature = Undefined THEN TRUE ELSE a.checkSignature[1]

NextUidPath(this, newContractAddress) ==
  <<ZORA_API_BASE, "signature/", this.network.zoraBackendChainName, "/",
    toLowerCase(newContractAddress), "/next_uid">>

\* this.get(path): the fetch and the json() of its response, no status check.
get(answer) ==
  IF ~answer.ok THEN [ok |-> FALSE, error |-> <<"fetch failed">>]
  ELSE IF ~answer.json THEN [ok |-> FALSE, error |-> <<"SyntaxError: response.json()">>]
  ELSE [ok |-> TRUE, value |-> answer.body]

\* this.post(path, data): the fetch, the status check, the json().
post(answer) ==
  IF ~answer.ok THEN [ok |-> FALSE, error |-> <<"fetch failed">>]
  ELSE IF answer.status # 200
    THEN [ok |-> FALSE, error |-> <<"Bad response: ", answer.status>>]
  ELSE IF ~answer.json THEN [ok |-> FALSE, error |-> <<"SyntaxError: response.json()">>]
  ELSE [ok |-> TRUE, value |-> answer.body]

\* The chain id of the resolved network in place of the chain's own.
SigningChainIdOfNetwork(this) == this.network.chainId

\* Line 243: chainId: this.chain.id.
SigningChainId(this) == this.chain.id

\* The uid kept in one slot for the whole instance: a flow signs the uid of
\* another createPremint in flight on its instance when there is one.
SignStageSharedUid(f, l, cs) ==
  LET peers == {g \in Flows \ {f} :
                  /\ op[g] = "createPremint" /\ self[g] = self[f]
                  /\ "premintConfig" \in DOMAIN loc[g]}
      uid == IF peers = {} THEN l.uid
             ELSE Some(loc[CHOOSE g \in peers : TRUE].premintConfig.uid)
  IN  IF FalsyNumber(uid)
        THEN Throws(f, <<"UID is missing but required">>, cs)
        ELSE LET deleted == DeletedSetting(args[f])
                 premintConfig == [tokenConfig |-> l.tokenConfig, uid |-> uid[1],
                                   version |-> 1, deleted |-> deleted]
                 l2 == Spread(l, [deleted |-> deleted, premintConfig |-> premintConfig])
             IN  Awaits(f, "signTypedData", l2, cs,
                        Request("signTypedData",
                                [account |-> args[f].account,
                                 typedData |->
                                   preminterTypedDataDefinition(
                                     l.newContractAddress, premintConfig,
                                     SigningChainId(This(f)))]))

\* Lines 225-245: the uid check, the premint config and the signing request.
SignStage(f, l, cs) ==
  IF FalsyNumber(l.uid)
    THEN Throws(f, <<"UID is missing but required">>, cs)
    ELSE LET deleted == DeletedSetting(args[f])
             premintConfig == [tokenConfig |-> l.tokenConfig, uid |-> l.uid[1],
                               version |-> 1, deleted |-> deleted]
             l2 == Spread(l, [deleted |-> deleted, premintConfig |-> premintConfig])
         IN  Awaits(f, "signTypedData", l2, cs,
                    Request("signTypedData",
                            [account |-> args[f].account,
                             typedData |->
                               preminterTypedDataDefinition(
                                 l.newContractAddress, premintConfig,
                                 SigningChainId(This(f)))]))

\* The API body built from a config whose deleted flag is rebuilt as false.
PostStageUndeleted(f, l, cs) ==
  LET apiData == [collection |-> args[f].collection,
                  premint |-> encodePremintForAPI(
                                [l.premintConfig EXCEPT !.deleted = FALSE]),
                  chain_name |-> This(f).network.zoraBackendChainName,
                  signature |-> l.signature]
  IN  Awaits(f, "post", l, cs,
             Request("POST", [path |-> <<ZORA_API_BASE, "signature">>,
                              body |-> apiData]))

\* Lines 259-266: the API body and the POST.
PostStage(f, l, cs) ==
  LET apiData == [collection |-> args[f].collection,
                  premint |-> encodePremintForAPI(l.premintConfig),
                  chain_name |-> This(f).network.zoraBackendChainName,
                  signature |-> l.signature]
  IN  Awaits(f, "post", l, cs,
             Request("POST", [path |-> <<ZORA_API_BASE, "signature">>,
                              body |-> apiData]))

\* viem's createPublicClient({chain, transport: http()}).
createPublicClient(chain) == [source |-> "createPublicClient", chain |-> chain]

\* The public client a caller may pass in.
PublicClients == {Undefined, Some([source |-> "caller"])}

CreatePremintArgs ==
  [account : Accounts, collection : Collections, mint : MintSettings,
   publicClient : PublicClients, executionSettings : ExecutionSettings,
   checkSignature : OptBool]

ContractAddressReads ==
  {[ok |-> TRUE, value |-> a] : a \in ContractAddresses}
  \cup {[ok |-> FALSE, value |-> "ContractFunctionExecutionError"]}

WalletSignatures ==
  {[ok |-> TRUE, value |-> sg] : sg \in Signatures}
  \cup {[ok |-> FALSE, value |-> "UserRejectedRequestError"]}

ValidityReads ==
  {[ok |-> TRUE, isValid |-> TRUE, contractAddress |-> "0xC011Ec7A",
    recoveredSigner |-> "0xCreator"],
   [ok |-> TRUE, isValid |-> FALSE, contractAddress |-> "0xC011Ec7A",
    recoveredSigner |-> "0xOther"],
   [ok |-> FALSE, isValid |-> FALSE, contractAddress |-> "", recoveredSigner |-> ""]}

\* createPremint is called on instance i: lines 195-206, up to the first await.
CreatePremint(f, i, a) ==
  /\ f \in active
  /\ op[f] = "idle"
  /\ api[i] # Undefined
  /\ op' = [op EXCEPT ![f] = "createPremint"]
  /\ self' = [self EXCEPT ![f] = i]
  /\ args' = [args EXCEPT ![f] = a]
  /\ LET publicClient == IF a.publicClient = Undefined
                           THEN createPublicClient(api[i][1].chain)
                           ELSE a.publicClient[1]
     IN  Awaits(f, "getContractAddress", [publicClient |-> publicClient], << >>,
                Request("getContractAddress",
                        [client |-> publicClient,
                         address |-> getExecutorAddress(api[i][1]),
                         args |-> <<a.collection>>]))
  /\ UNCHANGED <<api, ctorError, active, pure>>

\* The getContractAddress read answers: lines 201-223.
ContractAddressAnswers(f, r) ==
  /\ op[f] = "createPremint"
  /\ pc[f] = "getContractAddress"
  /\ LET cs == Append(calls[f], Response("getContractAddress", r))
     IN  IF ~r.ok
           THEN Throws(f, <<r.value>>, cs)
           ELSE LET tokenConfig ==
                      BuildTokenConfig(This(f), args[f].account, args[f].mint)
                    uid == ExplicitUid(args[f])
                    l == Spread(loc[f], [newContractAddress |-> r.value,
                                         tokenConfig |-> tokenConfig,
                                         uid |-> uid])
                IN  IF FalsyNumber(uid)
                      THEN Awaits(f, "next_uid", l, cs,
                                  Request("GET",
                                          [path |-> NextUidPath(This(f), r.value)]))
                      ELSE SignStage(f, l, cs)
  /\ UNCHANGED <<api, ctorError, active, op, self, args, pure>>

\* The next_uid answer reconciled on the client: a uid that another flow
\* holds for the same address is replaced by the one after it.
NextUidAnswersReconciling(f, r) ==
  /\ op[f] = "createPremint"
  /\ pc[f] = "next_uid"
  /\ LET cs == Append(calls[f], Response("GET", r))
         uidResponse == get(r)
         uid == uidResponse.value.next_uid
         taken == \E g \in Flows \ {f} :
                    /\ op[g] = "createPremint"
                    /\ "premintConfig" \in DOMAIN loc[g]
                    /\ loc[g].newContractAddress = loc[f].newContractAddress
                    /\ Some(loc[g].premintConfig.uid) = uid
     IN  IF ~uidResponse.ok
           THEN Throws(f, uidResponse.error, cs)
           ELSE SignStage(f, [loc[f] EXCEPT !.uid = IF taken THEN Some(uid[1] + 1)
                                                    ELSE uid], cs)
  /\ UNCHANGED <<api, ctorError, active, op, self, args, pure>>

\* The registry answers the next_uid GET: lines 217-245.
NextUidAnswersFlow(f, r) ==
  /\ op[f] = "createPremint"
  /\ pc[f] = "next_uid"
  /\ LET cs == Append(calls[f], Response("GET", r))
         uidResponse == get(r)
     IN  IF ~uidResponse.ok
           THEN Throws(f, uidResponse.error, cs)
           ELSE SignStage(f, [loc[f] EXCEPT !.uid = uidResponse.value.next_uid], cs)
  /\ UNCHANGED <<api, ctorError, active, op, self, args, pure>>

\* Lines 238-266 with the wallet's rejection caught and the flow carried on
\* with an empty signature.
SignatureAnswersSwallowing(f, r) ==
  /\ op[f] = "createPremint"
  /\ pc[f] = "signTypedData"
  /\ LET cs == Append(calls[f], Response("signTypedData", r))
         l == Spread(loc[f], [signature |-> IF r.ok THEN r.value ELSE "0x"])
     IN  IF CheckSignature(args[f])
           THEN Awaits(f, "isValidSignature", l, cs,
                       Request("isValidSignature",
                               [client |-> l.publicClient,
                                address |-> getExecutorAddress(This(f)),
                                args |-> <<args[f].collection,
                                           l.premintConfig, l.signature>>]))
           ELSE PostStage(f, l, cs)
  /\ UNCHANGED <<api, ctorError, active, op, self, args, pure>>

\* The wallet answers the signTypedData request: lines 238-266.
SignatureAnswers(f, r) ==
  /\ op[f] = "createPremint"
  /\ pc[f] = "signTypedData"
  /\ LET cs == Append(calls[f], Response("signTypedData", r))
     IN  IF ~r.ok
           THEN Throws(f, <<r.value>>, cs)
           ELSE LET l == Spread(loc[f], [signature |-> r.value])
                IN  IF CheckSignature(args[f])
                      THEN Awaits(f, "isValidSignature", l, cs,
                                  Request("isValidSignature",
                                          [client |-> l.publicClient,
                                           address |-> getExecutorAddress(This(f)),
                                           args |-> <<args[f].collection,
                                                      l.premintConfig, r.value>>]))
                      ELSE PostStage(f, l, cs)
  /\ UNCHANGED <<api, ctorError, active, op, self, args, pure>>

\* Lines 248-266 without the check of lines 254-256.
ValidityAnswersUnchecked(f, r) ==
  /\ op[f] = "createPremint"
  /\ pc[f] = "isValidSignature"
  /\ LET cs == Append(calls[f], Response("isValidSignature", r))
     IN  IF ~r.ok
           THEN Throws(f, <<"ContractFunctionExecutionError">>, cs)
           ELSE PostStage(f, loc[f], cs)
  /\ UNCHANGED <<api, ctorError, active, op, self, args, pure>>

\* The isValidSignature read answers: lines 248-266.
ValidityAnswers(f, r) ==
  /\ op[f] = "createPremint"
  /\ pc[f] = "isValidSignature"
  /\ LET cs == Append(calls[f], Response("isValidSignature", r))
     IN  IF ~r.ok
           THEN Throws(f, <<"ContractFunctionExecutionError">>, cs)
           ELSE IF ~r.isValid
             THEN Throws(f, <<"Invalid signature">>, cs)
             ELSE PostStage(f, loc[f], cs)
  /\ UNCHANGED <<api, ctorError, active, op, self, args, pure>>

\* Lines 266-277 with one more attempt after a POST that failed.
PostAnswersRetrying(f, r) ==
  /\ op[f] = "createPremint"
  /\ pc[f] = "post"
  /\ LET cs == Append(calls[f], Response("POST", r))
         premint == post(r)
         l == loc[f]
         sent == {k \in DOMAIN calls[f] :
                    calls[f][k].phase = "request" /\ calls[f][k].call = "POST"}
     IN  IF ~premint.ok /\ Cardinality(sent) < 2
           THEN PostStage(f, l, cs)
           ELSE IF ~premint.ok
             THEN Throws(f, premint.error, cs)
             ELSE Returns(f, [uid |-> l.uid[1],
                              newContractAddress |-> l.newContractAddress,
                              premint |-> premint.value], cs)
  /\ UNCHANGED <<api, ctorError, active, op, self, args, pure>>

\* The collect URL with the host of the main site whatever the network.
CollectUrlMainSite(this, newContractAddress, uid) ==
  <<"https://", "", "zora.co/collect:", this.network.zoraPathChainName,
    ":", newContractAddress, "/premint-", uid>>

\* Lines 269-273: the collect URL.
CollectUrl(this, newContractAddress, uid) ==
  <<"https://", IF this.network.isTestnet THEN "testnet." ELSE "",
    "zora.co/collect:", this.network.zoraPathChainName,
    ":", newContractAddress, "/premint-", uid>>

\* The registry answers the POST: lines 266-277.
PostAnswersFlow(f, r) ==
  /\ op[f] = "createPremint"
  /\ pc[f] = "post"
  /\ LET cs == Append(calls[f], Response("POST", r))
         premint == post(r)
         l == loc[f]
     IN  IF ~premint.ok
           THEN Throws(f, premint.error, cs)
           ELSE Returns(f,
                  [url |-> CollectUrl(This(f), l.newContractAddress, l.uid[1]),
                   uid |-> l.uid[1],
                   newContractAddress |-> l.newContractAddress,
                   premint |-> premint.value],
                  cs)
  /\ UNCHANGED <<api, ctorError, active, op, self, args, pure>>

-----------------------------------------------------------------------------
(* getPremintData, isValidSignature, executePremintWithWallet *)

\* A signed record as the registry serves it, for the token config tc.
SignedRecord(tc, uid, sg) ==
  [collection |-> CHOOSE c \in Collections : TRUE,
   premint |-> encodePremintForAPI(
                 [tokenConfig |-> tc, uid |-> uid, version |-> 1, deleted |-> FALSE]),
   chain_name |-> ZORA_TESTNET,
   signature |-> sg]

StoredRecords ==
  {SignedRecord(Spread(DefaultMintArguments,
                       [tokenURI |-> "ipfs://t", fixedPriceMinter |-> "0xFixedPrice@999",
                        royaltyRecipient |-> "0xCreator", pricePerToken |-> price]),
                1, "0xSig1") :
     price \in {BigIntOfNumber(0), BigIntOfNumber(1)}}

\* What the registry may answer to the GET of a record.
RecordAnswers ==
  {[ok |-> TRUE, status |-> 200, json |-> TRUE, body |-> rec] : rec \in StoredRecords}
  \cup {[ok |-> TRUE, status |-> 500, json |-> TRUE, body |-> [message |-> "error"]],
        [ok |-> TRUE, status |-> 500, json |-> FALSE, body |-> [message |-> "error"]],
        [ok |-> FALSE, status |-> 0, json |-> FALSE, body |-> [message |-> "error"]]}

\* What a caller may hand to isValidSignature and executePremintWithWallet as
\* data: whatever getPremintData can return.
RecordData == {get(r).value : r \in {x \in RecordAnswers : get(x).ok}}

GetPremintData(f, i, address, uid) ==
  /\ f \in active
  /\ op[f] = "idle"
  /\ api[i] # Undefined
  /\ op' = [op EXCEPT ![f] = "getPremintData"]
  /\ self' = [self EXCEPT ![f] = i]
  /\ args' = [args EXCEPT ![f] = [address |-> address, uid |-> uid]]
  /\ Awaits(f, "get", NoLoc, << >>,
            Request("GET",
                    [path |-> <<ZORA_PREMINT_API_BASE, "signature/",
                                api[i][1].network.zoraBackendChainName, "/",
                                address, "/", uid>>]))
  /\ UNCHANGED <<api, ctorError, active, pure>>

\* The registry answers the GET of a record: lines 281-284.
RecordAnswersFlow(f, r) ==
  /\ op[f] = "getPremintData"
  /\ pc[f] = "get"
  /\ LET cs == Append(calls[f], Response("GET", r))
         response == get(r)
     IN  IF ~response.ok
           THEN Throws(f, response.error, cs)
           ELSE Returns(f, response.value, cs)
  /\ UNCHANGED <<api, ctorError, active, op, self, args, pure>>

\* convertPremint(data.premint) reads data.premint.tokenConfig: a TypeError
\* when data has no premint.
ConvertThrows(data) == "premint" \notin DOMAIN data

IsValidSignature(f, i, a) ==
  /\ f \in active
  /\ op[f] = "idle"
  /\ api[i] # Undefined
  /\ op' = [op EXCEPT ![f] = "isValidSignature"]
  /\ self' = [self EXCEPT ![f] = i]
  /\ args' = [args EXCEPT ![f] = a]
  /\ IF ConvertThrows(a.data)
       THEN Throws(f, <<"TypeError">>, << >>)
       ELSE Awaits(f, "isValidSignature", NoLoc, << >>,
                   Request("isValidSignature",
                           [client |-> a.publicClient,
                            address |-> getExecutorAddress(api[i][1]),
                            args |-> <<a.data.collection, convertPremint(a.data.premint),
                                       a.data.signature>>]))
  /\ UNCHANGED <<api, ctorError, active, pure>>

\* The isValidSignature read answers: lines 298-306.
ValidityAnswersMethod(f, r) ==
  /\ op[f] = "isValidSignature"
  /\ pc[f] = "isValidSignature"
  /\ LET cs == Append(calls[f], Response("isValidSignature", r))
     IN  IF ~r.ok
           THEN Throws(f, <<"ContractFunctionExecutionError">>, cs)
           ELSE Returns(f, [isValid |-> r.isValid,
                            contractAddress |-> r.contractAddress,
                            recoveredSigner |-> r.recoveredSigner], cs)
  /\ UNCHANGED <<api, ctorError, active, op, self, args, pure>>

Quantities == {BigIntOfNumber(n) : n \in 0..MaxQuantity}

ExecuteArgs ==
  [data : RecordData, account : {Undefined, Some("0xMinter")},
   walletAccount : {"0xWallet"},
   mintArguments : [quantityToMint : Quantities, mintComment : {"gm"}],
   publicClient : PublicClients]

\* The record's price charged on top of the reward.
PaymentValueWithPrice(this, a) ==
  BigMul(a.mintArguments.quantityToMint,
         BigAdd(this.rewardPerToken, BigInt(a.data.premint.tokenConfig.pricePerToken)))

\* Line 338: mintArguments.quantityToMint * this.rewardPerToken.
PaymentValue(this, a) == BigMul(a.mintArguments.quantityToMint, this.rewardPerToken)

\* The simulation branch never taken.
SimulateNever(a) == FALSE

\* Line 340: if (publicClient).
SimulateFirst(a) == a.publicClient # Undefined

\* executePremintWithWallet is called: lines 325-360, up to the first await.
ExecutePremintWithWallet(f, i, a) ==
  /\ f \in active
  /\ op[f] = "idle"
  /\ api[i] # Undefined
  /\ op' = [op EXCEPT ![f] = "executePremintWithWallet"]
  /\ self' = [self EXCEPT ![f] = i]
  /\ args' = [args EXCEPT ![f] = a]
  /\ IF ConvertThrows(a.data)
       THEN Throws(f, <<"TypeError">>, << >>)
       ELSE LET this == api[i][1]
                targetAddress == getExecutorAddress(this)
                callArgs == <<a.data.collection, convertPremint(a.data.premint),
                              a.data.signature, a.mintArguments.quantityToMint,
                              a.mintArguments.mintComment>>
                account == IF a.account = Undefined THEN a.walletAccount
                           ELSE a.account[1]
                value == PaymentValue(this, a)
                l == [account |-> account, value |-> value]
            IN  IF SimulateFirst(a)
                  THEN Awaits(f, "simulateContract", l, << >>,
                              Request("simulateContract",
                                      [account |-> account, functionName |-> "premint",
                                       value |-> value, address |-> targetAddress,
                                       args |-> callArgs]))
                  ELSE Awaits(f, "writeContract", l, << >>,
                              Request("writeContract",
                                      [account |-> account, value |-> value,
                                       chain |-> this.chain, functionName |-> "premint",
                                       address |-> targetAddress, args |-> callArgs]))
  /\ UNCHANGED <<api, ctorError, active, pure>>

\* viem's simulateContract resolves to {result, request}; request is the call
\* it was given, ready for writeContract.
SimulatedRequest(cs) == cs[Len(cs)].data

\* The simulation answers: lines 341-349.
SimulationAnswers(f, reverted) ==
  /\ op[f] = "executePremintWithWallet"
  /\ pc[f] = "simulateContract"
  /\ LET cs == Append(calls[f], Response("simulateContract", [ok |-> ~reverted]))
     IN  IF reverted
           THEN Throws(f, <<"ContractFunctionRevertedError">>, cs)
           ELSE Awaits(f, "writeContract", loc[f], cs,
                       Request("writeContract", SimulatedRequest(calls[f])))
  /\ UNCHANGED <<api, ctorError, active, op, self, args, pure>>

\* The wallet answers the writeContract request: lines 349 and 352-360.
WriteAnswers(f, failed) ==
  /\ op[f] = "executePremintWithWallet"
  /\ pc[f] = "writeContract"
  /\ LET cs == Append(calls[f], Response("writeContract", [ok |-> ~failed]))
     IN  IF failed
           THEN Throws(f, <<"TransactionExecutionError">>, cs)
           ELSE Returns(f, [hash |-> "0xTx"], cs)
  /\ UNCHANGED <<api, ctorError, active, op, self, args, pure>>

\* The caller drops a finished call; the flow slot is free for the next call.
Forget(f) ==
  /\ pc[f] = "done"
  /\ op' = [op EXCEPT ![f] = "idle"]
  /\ pc' = [pc EXCEPT ![f] = "idle"]
  /\ args' = [args EXCEPT ![f] = NoLoc]
  /\ loc' = [loc EXCEPT ![f] = NoLoc]
  /\ calls' = [calls EXCEPT ![f] = << >>]
  /\ result' = [result EXCEPT ![f] = NoResult]
  /\ UNCHANGED <<api, ctorError, active, self, pure>>

Next ==
  \/ \E i \in Insts, c \in ChainIds : Construct(i, [id |-> c])
  \/ \E f \in Flows, i \in Insts, a \in CreatePremintArgs : CreatePremint(f, i, a)
  \/ \E f \in Flows, r \in ContractAddressReads : ContractAddressAnswers(f, r)
  \/ \E f \in Flows, r \in NextUidAnswers : NextUidAnswersFlow(f, r)
  \/ \E f \in Flows, r \in WalletSignatures : SignatureAnswers(f, r)
  \/ \E f \in Flows, r \in ValidityReads : ValidityAnswers(f, r)
  \/ \E f \in Flows, r \in PostAnswers : PostAnswersFlow(f, r)
  \/ \E f \in Flows, i \in Insts, ad \in ContractAddresses, u \in 1..MaxUid :
       GetPremintData(f, i, toLowerCase(ad), u)
  \/ \E f \in Flows, r \in RecordAnswers : RecordAnswersFlow(f, r)
  \/ \E f \in Flows, i \in Insts, d \in RecordData, pcl \in {[source |-> "caller"]} :
       IsValidSignature(f, i, [data |-> d, publicClient |-> pcl])
  \/ \E f \in Flows, r \in ValidityReads : ValidityAnswersMethod(f, r)
  \/ \E f \in Flows, i \in Insts, a \in ExecuteArgs : ExecutePremintWithWallet(f, i, a)
  \/ \E f \in Flows, reverted \in BOOLEAN : SimulationAnswers(f, reverted)
  \/ \E f \in Flows, failed \in BOOLEAN : WriteAnswers(f, failed)
  \/ \E f \in Flows : Forget(f)

Spec == Init /\ [][Next]_vars

-----------------------------------------------------------------------------
(* The token config merge on its own: every subset of the optional mint      *)
(* settings, on every supported chain.                                        *)

OptionalMintFields ==
  {"maxSupply", "maxTokensPerAddress", "pricePerToken", "mintStart", "mintDuration",
   "royaltyMintSchedule", "royaltyBPS", "royaltyRecipient", "fixedPriceMinter"}

\* A value for each mint setting that differs from its default.
MintOverride ==
  [tokenURI |-> "ipfs://t",
   maxSupply |-> BigIntOfNumber(100),
   maxTokensPerAddress |-> BigIntOfNumber(5),
   pricePerToken |-> BigIntOfNumber(1),
   mintStart |-> BigIntOfNumber(1700000000),
   mintDuration |-> BigIntOfNumber(3600),
   royaltyMintSchedule |-> 10,
   royaltyBPS |-> 500,
   royaltyRecipient |-> "0xPayee",
   fixedPriceMinter |-> "0xOwnMinter"]

InitBuild ==
  /\ api = [i \in Insts |-> Undefined]
  /\ ctorError = [i \in Insts |-> Undefined]
  /\ active = {}
  /\ InitFlows
  /\ \E chosen \in SUBSET OptionalMintFields, c \in SupportedChainIds, acct \in Accounts :
       pure = [spec |-> "build", chain |-> [id |-> c], account |-> acct,
               mint |-> [k \in chosen \cup {"tokenURI"} |-> MintOverride[k]],
               tokenConfig |-> Undefined]

\* Lines 208-213 on an instance constructed for pure.chain.
Build ==
  /\ pure.spec = "build"
  /\ pure.tokenConfig = Undefined
  /\ pure' = [pure EXCEPT !.tokenConfig =
                Some(BuildTokenConfig(Constructor(pure.chain).this,
                                      pure.account, pure.mint))]
  /\ UNCHANGED <<api, ctorError, active, flowVars>>

NextBuild == Build

SpecBuild == InitBuild /\ [][NextBuild]_vars

-----------------------------------------------------------------------------
(* The wire round trip on its own: encodePremintForAPI, then convertPremint. *)

BoundaryValues ==
  {BigIntOfNumber(0), BigIntOfNumber(1), BigInt(OPEN_EDITION_MINT_SIZE)}

RoundTripConfigs ==
  {[tokenConfig |->
      [tokenURI |-> "ipfs://t", maxSupply |-> ms, maxTokensPerAddress |-> mt,
       pricePerToken |-> pr, mintStart |-> st, mintDuration |-> du,
       royaltyMintSchedule |-> 0, royaltyBPS |-> 1000,
       royaltyRecipient |-> "0xCreator", fixedPriceMinter |-> "0xFixedPrice@999"],
    uid |-> u, version |-> 1, deleted |-> d] :
     ms \in BoundaryValues, mt \in BoundaryValues, pr \in BoundaryValues,
     st \in BoundaryValues, du \in BoundaryValues, u \in 1..MaxUid, d \in BOOLEAN}

InitRoundTrip ==
  /\ api = [i \in Insts |-> Undefined]
  /\ ctorError = [i \in Insts |-> Undefined]
  /\ active = {}
  /\ InitFlows
  /\ \E p \in RoundTripConfigs :
       pure = [spec |-> "roundtrip", premintConfig |-> p,
               wire |-> Undefined, back |-> Undefined]

Encode ==
  /\ pure.spec = "roundtrip"
  /\ pure.wire = Undefined
  /\ pure' = [pure EXCEPT !.wire = Some(encodePremintForAPI(pure.premintConfig))]
  /\ UNCHANGED <<api, ctorError, active, flowVars>>

Convert ==
  /\ pure.spec = "roundtrip"
  /\ pure.wire # Undefined
  /\ pure.back = Undefined
  /\ pure' = [pure EXCEPT !.back = Some(convertPremint(pure.wire[1]))]
  /\ UNCHANGED <<api, ctorError, active, flowVars>>

NextRoundTrip == Encode \/ Convert

SpecRoundTrip == InitRoundTrip /\ [][NextRoundTrip]_vars

-----------------------------------------------------------------------------
(* reading the call log *)

IsRequest(e, name) == e.phase = "request" /\ e.call = name

IsResponse(e, name) == e.phase = "response" /\ e.call = name

\* Flow f issued a request name.
Issued(f, name) == \E k \in DOMAIN calls[f] : IsRequest(calls[f][k], name)

\* Flow f is a createPremint call.
Creating(f) == op[f] = "createPremint"

\* The caller of createPremint gave a uid that is not 0.
GaveUid(f) ==
  /\ args[f].executionSettings # Undefined
  /\ args[f].executionSettings[1].uid # Undefined
  /\ args[f].executionSettings[1].uid[1] # 0

\* The caller of createPremint left verification on.
VerificationOn(f) == args[f].checkSignature # Some(FALSE)

\* Before entry k of its log, flow f received a registry answer carrying a
\* usable next_uid.
UidReceivedBefore(f, k) ==
  \E j \in 1..(k - 1) :
    /\ IsResponse(calls[f][j], "GET")
    /\ calls[f][j].data.ok /\ calls[f][j].data.json
    /\ calls[f][j].data.body.next_uid # Undefined
    /\ calls[f][j].data.body.next_uid[1] # 0

\* Before entry k of its log, flow f received a signature from the wallet.
SignedBefore(f, k) ==
  \E j \in 1..(k - 1) :
    IsResponse(calls[f][j], "signTypedData") /\ calls[f][j].data.ok

\* Before entry k of its log, flow f was told the signature is valid.
VerifiedBefore(f, k) ==
  \E j \in 1..(k - 1) :
    /\ IsResponse(calls[f][j], "isValidSignature")
    /\ calls[f][j].data.ok /\ calls[f][j].data.isValid

-----------------------------------------------------------------------------
(* C1 *)

\* C1: in a createPremint flow the signing request is issued only once the
\* uid is determined (a non-zero uid from the caller, or a next_uid answer
\* received), the isValidSignature read only once the signature is received,
\* and the POST only once the uid is determined, the signature is received
\* and, with verification on, the signature was reported valid.
C1_CallOrder ==
  \A f \in Flows :
    Creating(f) =>
      \A k \in DOMAIN calls[f] :
        LET e == calls[f][k]
            uidKnown == GaveUid(f) \/ UidReceivedBefore(f, k)
        IN  /\ IsRequest(e, "signTypedData") => uidKnown
            /\ IsRequest(e, "isValidSignature") => uidKnown /\ SignedBefore(f, k)
            /\ IsRequest(e, "POST") =>
                 /\ uidKnown
                 /\ SignedBefore(f, k)
                 /\ VerificationOn(f) => VerifiedBefore(f, k)

\* A flow that asked the registry for its uid, signed, verified and posted.
C1_Witness ==
  \E f \in Flows :
    /\ Creating(f) /\ ~GaveUid(f) /\ VerificationOn(f)
    /\ \E k \in DOMAIN calls[f] :
         /\ IsRequest(calls[f][k], "POST")
         /\ UidReceivedBefore(f, k) /\ SignedBefore(f, k) /\ VerifiedBefore(f, k)

-----------------------------------------------------------------------------
(* C2 *)

\* Flow f was told by the isValidSignature read that the signature is invalid.
ToldInvalid(f) ==
  \E k \in DOMAIN calls[f] :
    /\ IsResponse(calls[f][k], "isValidSignature")
    /\ calls[f][k].data.ok /\ ~calls[f][k].data.isValid

ThrewMessage(f, msg) ==
  /\ pc[f] = "done"
  /\ result[f].thrown # Undefined
  /\ result[f].thrown[1][1] = msg

\* C2: a createPremint flow with verification on whose isValidSignature read
\* reports false has failed with "Invalid signature" and has issued no POST.
C2_InvalidSignatureAborts ==
  \A f \in Flows :
    (Creating(f) /\ VerificationOn(f) /\ ToldInvalid(f)) =>
      /\ ThrewMessage(f, "Invalid signature")
      /\ result[f].returned = Undefined
      /\ ~Issued(f, "POST")

C2_Witness ==
  \E f \in Flows :
    /\ Creating(f) /\ VerificationOn(f) /\ ToldInvalid(f)
    /\ ThrewMessage(f, "Invalid signature")

-----------------------------------------------------------------------------
(* C3 *)

\* The registry answers flow f received to its next_uid request.
UidAnswers(f) ==
  {k \in DOMAIN calls[f] : IsResponse(calls[f][k], "GET")}

\* The uid the flow put in the config it asked the wallet to sign.
SignedUid(f) == loc[f].premintConfig.uid

\* The flow has built the config it signs (it got past the uid check).
BuiltConfig(f) == "premintConfig" \in DOMAIN loc[f]

\* C3: with a non-zero uid from the caller no next_uid request is sent and
\* that uid is the one signed; with no uid or 0 from the caller the uid
\* signed is the next_uid of the registry's answer; when that is absent or 0
\* too, the flow fails with "UID is missing but required" having issued
\* neither a signing request nor a POST.
C3_UidAllocation ==
  \A f \in Flows :
    Creating(f) =>
      /\ GaveUid(f) =>
           /\ ~Issued(f, "GET")
           /\ BuiltConfig(f) => SignedUid(f) = args[f].executionSettings[1].uid[1]
      /\ (~GaveUid(f) /\ BuiltConfig(f)) =>
           /\ UidAnswers(f) # {}
           /\ \A k \in UidAnswers(f) :
                calls[f][k].data.body.next_uid = Some(SignedUid(f))
           /\ SignedUid(f) # 0
      /\ (~GaveUid(f) /\ \E k \in UidAnswers(f) :
                           /\ calls[f][k].data.ok /\ calls[f][k].data.json
                           /\ calls[f][k].data.body.next_uid \in {Undefined, Some(0)}) =>
           /\ ThrewMessage(f, "UID is missing but required")
           /\ ~Issued(f, "signTypedData")
           /\ ~Issued(f, "POST")
      /\ Issued(f, "signTypedData") => BuiltConfig(f)
      /\ \A k \in DOMAIN calls[f] :
           IsRequest(calls[f][k], "signTypedData") =>
             calls[f][k].data.typedData.message.uid = SignedUid(f)

\* A caller passed uid 0, the registry answered next_uid 0, and the flow
\* failed with the missing-uid error.
C3_Witness ==
  \E f \in Flows :
    /\ Creating(f)
    /\ args[f].executionSettings # Undefined
    /\ args[f].executionSettings[1].uid = Some(0)
    /\ \E k \in UidAnswers(f) : calls[f][k].data.body.next_uid = Some(0)
    /\ ThrewMessage(f, "UID is missing but required")

\* A caller passed uid 0 and the flow signed the registry's next_uid.
C3_WitnessZeroReplaced ==
  \E f \in Flows :
    /\ Creating(f)
    /\ args[f].executionSettings # Undefined
    /\ args[f].executionSettings[1].uid = Some(0)
    /\ Issued(f, "signTypedData")
    /\ SignedUid(f) = 2

-----------------------------------------------------------------------------
(* C4 *)

\* C4: every registry answer with a status other than 200 has made the flow
\* that received it fail with an error carrying that status.
C4_NonSuccessIsFailure ==
  \A f \in Flows :
    \A k \in DOMAIN calls[f] :
      LET e == calls[f][k]
      IN  ((IsResponse(e, "GET") \/ IsResponse(e, "POST"))
           /\ e.data.ok /\ e.data.status # 200) =>
            /\ pc[f] = "done"
            /\ result[f].returned = Undefined
            /\ result[f].thrown # Undefined
            /\ Len(result[f].thrown[1]) = 2
            /\ result[f].thrown[1][2] = e.data.status

-----------------------------------------------------------------------------
(* C5 *)

\* C5: an instance constructed for a supported chain id c holds a network
\* config whose chainId is c and whose backend name is the one tabled for c;
\* construction for any other chain id throws and leaves no instance.
C5_NetworkResolution ==
  \A i \in Insts :
    /\ api[i] # Undefined =>
         /\ api[i][1].chain.id \in SupportedChainIds
         /\ api[i][1].network.chainId = api[i][1].chain.id
         /\ api[i][1].network.zoraBackendChainName =
              networkConfigByChain[api[i][1].chain.id].zoraBackendChainName
    /\ ctorError[i] # Undefined =>
         /\ api[i] = Undefined
         /\ ctorError[i][1][2] \notin SupportedChainIds

-----------------------------------------------------------------------------
(* C6 *)

ChainCalls == {"getContractAddress", "isValidSignature", "simulateContract", "writeContract"}

\* C6: every chain call of a flow goes to the premint executor tabled for the
\* chain id of the flow's instance, and the fixedPriceMinter a createPremint
\* flow puts in the token config (when the caller overrides none) is the one
\* tabled for that chain id.
C6_AddressesOfOwnChain ==
  \A f \in Flows :
    op[f] # "idle" =>
      /\ \A k \in DOMAIN calls[f] :
           (calls[f][k].phase = "request" /\ calls[f][k].call \in ChainCalls) =>
             calls[f][k].data.address =
               zoraCreator1155PremintExecutorImplAddress[This(f).chain.id]
      /\ (Creating(f) /\ "tokenConfig" \in DOMAIN loc[f]
          /\ "fixedPriceMinter" \notin DOMAIN args[f].mint) =>
           loc[f].tokenConfig.fixedPriceMinter =
             zoraCreatorFixedPriceSaleStrategyAddress[This(f).chain.id]

-----------------------------------------------------------------------------
(* C7 *)

\* The value the merge is to give field k when the caller supplies none.
MergeFallback(k) ==
  CASE k = "fixedPriceMinter" ->
         zoraCreatorFixedPriceSaleStrategyAddress[pure.chain.id]
    [] k = "royaltyRecipient" -> pure.account
    [] k = "maxSupply" -> BigInt(<<1,8,4,4,6,7,4,4,0,7,3,7,0,9,5,5,1,6,1,5>>)
    [] k = "maxTokensPerAddress" -> BigIntOfNumber(0)
    [] k = "pricePerToken" -> BigIntOfNumber(0)
    [] k = "mintStart" -> BigIntOfNumber(0)
    [] k = "mintDuration" -> BigIntOfNumber(604800)
    [] k = "royaltyMintSchedule" -> 0
    [] k = "royaltyBPS" -> 1000

\* C7: every field of the token config is the caller's mint setting when
\* given, else the context value (the fixed price minter tabled for the
\* instance's chain, the account as royalty recipient), else the default.
C7_TokenConfigMerge ==
  (pure.spec = "build" /\ pure.tokenConfig # Undefined) =>
    LET tc == pure.tokenConfig[1]
    IN  /\ DOMAIN tc = OptionalMintFields \cup {"tokenURI"}
        /\ tc.tokenURI = pure.mint.tokenURI
        /\ \A k \in OptionalMintFields :
             tc[k] = IF k \in DOMAIN pure.mint THEN pure.mint[k] ELSE MergeFallback(k)

\* The part of C7 the code keeps: the same merge, with the fixed price minter
\* the instance resolves (getFixedPriceMinterAddress) as the context value.
MergePrecedenceHolds ==
  (pure.spec = "build" /\ pure.tokenConfig # Undefined) =>
    LET tc == pure.tokenConfig[1]
    IN  /\ DOMAIN tc = OptionalMintFields \cup {"tokenURI"}
        /\ \A k \in OptionalMintFields :
             tc[k] = IF k \in DOMAIN pure.mint THEN pure.mint[k]
                     ELSE IF k = "fixedPriceMinter"
                       THEN getFixedPriceMinterAddress(Constructor(pure.chain).this)
                     ELSE MergeFallback(k)

-----------------------------------------------------------------------------
(* C8 *)

\* C8: a premint config with boundary values in its five bigint fields comes
\* back from encodePremintForAPI followed by convertPremint equal to itself,
\* field for field.
C8_RoundTrip ==
  (pure.spec = "roundtrip" /\ pure.back # Undefined) =>
    LET p == pure.premintConfig
        q == pure.back[1]
    IN  /\ DOMAIN q = DOMAIN p
        /\ DOMAIN q.tokenConfig = DOMAIN p.tokenConfig
        /\ \A k \in DOMAIN p.tokenConfig : q.tokenConfig[k] = p.tokenConfig[k]
        /\ q.uid = p.uid /\ q.version = p.version /\ q.deleted = p.deleted

\* A config with 2^64-1, 1 and 0 among its fields has made the round trip.
C8_Witness ==
  /\ pure.spec = "roundtrip"
  /\ pure.back # Undefined
  /\ pure.premintConfig.tokenConfig.maxSupply = BigInt(OPEN_EDITION_MINT_SIZE)
  /\ pure.premintConfig.tokenConfig.pricePerToken = BigIntOfNumber(1)
  /\ pure.premintConfig.tokenConfig.mintStart = BigIntOfNumber(0)
  /\ pure.wire[1].tokenConfig.maxSupply = OPEN_EDITION_MINT_SIZE

-----------------------------------------------------------------------------
(* C9 *)

Executing(f) == op[f] = "executePremintWithWallet"

\* n times 777000000000000, by repeated addition.
RECURSIVE RewardTimes(_)
RewardTimes(n) ==
  IF n = 0 THEN BigIntOfNumber(0)
  ELSE BigAdd(RewardTimes(n - 1), BigInt(<<7,7,7,0,0,0,0,0,0,0,0,0,0,0,0>>))

\* C9: every premint call (simulated or written) of an executePremintWithWallet
\* flow carries value quantityToMint * 777000000000000; 2331000000000000 for
\* a quantity of 3.
C9_PaymentValue ==
  \A f \in Flows :
    Executing(f) =>
      \A k \in DOMAIN calls[f] :
        (IsRequest(calls[f][k], "simulateContract")
         \/ IsRequest(calls[f][k], "writeContract")) =>
          /\ calls[f][k].data.functionName = "premint"
          /\ \E n \in 0..MaxQuantity :
               /\ args[f].mintArguments.quantityToMint = BigIntOfNumber(n)
               /\ calls[f][k].data.value = RewardTimes(n)
               /\ n = 3 => BigIntToString(calls[f][k].data.value) =
                             <<2,3,3,1,0,0,0,0,0,0,0,0,0,0,0,0>>

\* Three units of a record priced at 1 were simulated and then written.
C9_Witness ==
  \E f \in Flows :
    /\ Executing(f)
    /\ ~ConvertThrows(args[f].data)
    /\ args[f].mintArguments.quantityToMint = BigIntOfNumber(3)
    /\ args[f].data.premint.tokenConfig.pricePerToken = <<1>>
    /\ Issued(f, "simulateContract")
    /\ Issued(f, "writeContract")

-----------------------------------------------------------------------------
(* C10 *)

\* C10: with a public client supplied, writeContract is issued only after the
\* simulation answered without reverting, and not at all when it reverted;
\* with none supplied, writeContract is issued with no simulation.
C10_SimulateBeforeWrite ==
  \A f \in Flows :
    (Executing(f) /\ ~ConvertThrows(args[f].data)) =>
      IF args[f].publicClient # Undefined
        THEN /\ IsRequest(calls[f][1], "simulateContract")
             /\ \A k \in DOMAIN calls[f] :
                  /\ IsRequest(calls[f][k], "writeContract") =>
                       \E j \in 1..(k - 1) :
                         /\ IsResponse(calls[f][j], "simulateContract")
                         /\ calls[f][j].data.ok
                  /\ (IsResponse(calls[f][k], "simulateContract")
                      /\ ~calls[f][k].data.ok) =>
                       /\ ~Issued(f, "writeContract")
                       /\ ThrewMessage(f, "ContractFunctionRevertedError")
        ELSE /\ IsRequest(calls[f][1], "writeContract")
             /\ ~Issued(f, "simulateContract")

\* A simulation answered and the write followed it.
C10_Witness ==
  \E f \in Flows :
    /\ Executing(f)
    /\ args[f].publicClient # Undefined
    /\ \E k \in DOMAIN calls[f] :
         /\ IsRequest(calls[f][k], "writeContract")
         /\ IsResponse(calls[f][k - 1], "simulateContract")

\* A simulation reverted and the flow ended without a write.
C10_WitnessReverted ==
  \E f \in Flows :
    /\ Executing(f)
    /\ ThrewMessage(f, "ContractFunctionRevertedError")
    /\ ~Issued(f, "writeContract")


-----------------------------------------------------------------------------
(* C11 *)

\* The wallet rejected the signing request of flow f.
SigningRejected(f) ==
  \E k \in DOMAIN calls[f] :
    IsResponse(calls[f][k], "signTypedData") /\ ~calls[f][k].data.ok

\* C11: a createPremint flow whose signTypedData request the wallet rejected
\* has failed with the wallet's error, has returned nothing, and has issued
\* neither an isValidSignature read nor a POST.
C11_SigningRejectedAborts ==
  \A f \in Flows :
    (Creating(f) /\ SigningRejected(f)) =>
      /\ ThrewMessage(f, "UserRejectedRequestError")
      /\ result[f].returned = Undefined
      /\ ~Issued(f, "isValidSignature")
      /\ ~Issued(f, "POST")
      /\ IsResponse(calls[f][Len(calls[f])], "signTypedData")

\* A flow with verification on was rejected by the wallet and has ended.
C11_Witness ==
  \E f \in Flows :
    /\ Creating(f) /\ VerificationOn(f) /\ SigningRejected(f)
    /\ pc[f] = "done"

-----------------------------------------------------------------------------
(* C12 *)

ExternalCalls ==
  {"getContractAddress", "GET", "signTypedData", "isValidSignature", "POST",
   "simulateContract", "writeContract"}

\* The requests flow f issued for the external call name.
RequestsOf(f, name) == {k \in DOMAIN calls[f] : IsRequest(calls[f][k], name)}

\* The answers flow f received that report a failure of the call.
FailedAnswers(f) ==
  {k \in DOMAIN calls[f] :
     /\ calls[f][k].phase = "response"
     /\ \/ ~calls[f][k].data.ok
        \/ calls[f][k].call \in {"GET", "POST"} /\ calls[f][k].data.status # 200}

\* C12: no createPremint or executePremintWithWallet flow issues any of its
\* external calls more than once, and no request follows a failed answer to
\* a POST, a wallet or a chain call.
C12_NothingRetried ==
  \A f \in Flows :
    (Creating(f) \/ op[f] = "executePremintWithWallet") =>
      /\ \A name \in ExternalCalls : Cardinality(RequestsOf(f, name)) <= 1
      /\ \A k \in FailedAnswers(f) :
           calls[f][k].call # "GET" => k = Len(calls[f])

\* A createPremint flow whose POST the registry refused has ended with the
\* one POST it issued.
C12_Witness ==
  \E f \in Flows :
    /\ Creating(f)
    /\ pc[f] = "done"
    /\ \E k \in FailedAnswers(f) : calls[f][k].call = "POST"
    /\ Cardinality(RequestsOf(f, "POST")) = 1

-----------------------------------------------------------------------------
(* Two createPremint flows on two instances: the same caller input, the      *)
(* chain of each instance and the collection address of each flow vary.      *)

PairInsts == {"api", "api2"}

PairArgs ==
  {[account |-> "0xCreator",
    collection |-> CHOOSE c \in Collections : TRUE,
    mint |-> [tokenURI |-> "ipfs://t"],
    publicClient |-> Undefined,
    executionSettings |-> Some([deleted |-> Undefined, uid |-> Some(1)]),
    checkSignature |-> Some(FALSE)]}

InitPair ==
  /\ api = [i \in PairInsts |-> Undefined]
  /\ ctorError = [i \in PairInsts |-> Undefined]
  /\ active = Flows
  /\ InitFlows
  /\ pure = NoPure

NextPair ==
  \/ \E i \in PairInsts, c \in ChainIds : Construct(i, [id |-> c])
  \/ \E f \in Flows, i \in PairInsts, a \in PairArgs : CreatePremint(f, i, a)
  \/ \E f \in Flows, r \in {x \in ContractAddressReads : x.ok} :
       ContractAddressAnswers(f, r)
  \/ \E f \in Flows, r \in {x \in WalletSignatures : x.value = "0xSig1"} :
       SignatureAnswers(f, r)
  \/ \E f \in Flows, r \in {x \in PostAnswers : x.ok /\ x.json /\ x.status = 200} :
       PostAnswersFlow(f, r)

SpecPair == InitPair /\ [][NextPair]_vars

-----------------------------------------------------------------------------
(* C13 *)

\* The typed data flow f asked the wallet to sign.
SignRequests(f) ==
  {calls[f][k].data.typedData : k \in RequestsOf(f, "signTypedData")}

\* The address the getContractAddress read of flow f answered.
ResolvedAddresses(f) ==
  {calls[f][k].data.value :
     k \in {j \in DOMAIN calls[f] :
              IsResponse(calls[f][j], "getContractAddress") /\ calls[f][j].data.ok}}

\* C13: the typed data a createPremint flow asks the wallet to sign has the
\* chain id of the flow's instance as domain chainId and the address its own
\* getContractAddress read answered as verifyingContract; two flows signing
\* the same premint config on different chain ids, or for different resolved
\* addresses, ask for signatures over different typed data.
C13_SignatureScope ==
  /\ \A f \in Flows :
       Creating(f) =>
         \A td \in SignRequests(f) :
           /\ td.domain.chainId = This(f).chain.id
           /\ ResolvedAddresses(f) = {td.domain.verifyingContract}
           /\ td.message = loc[f].premintConfig
  /\ \A f \in Flows, g \in Flows :
       (Creating(f) /\ Creating(g)) =>
         \A tf \in SignRequests(f), tg \in SignRequests(g) :
           (/\ tf.message = tg.message
            /\ \/ This(f).chain.id # This(g).chain.id
               \/ ResolvedAddresses(f) # ResolvedAddresses(g)) =>
             tf # tg

\* Two flows, one on an instance for chain 999 and one on an instance for
\* chain 7777777, asked for a signature over the same premint config and the
\* same collection address.
C13_Witness ==
  \E f \in Flows, g \in Flows :
    /\ Creating(f) /\ Creating(g)
    /\ This(f).chain.id = zoraTestnet_id /\ This(g).chain.id = zora_id
    /\ SignRequests(f) # {} /\ SignRequests(g) # {}
    /\ ResolvedAddresses(f) = ResolvedAddresses(g)
    /\ \E tf \in SignRequests(f), tg \in SignRequests(g) : tf.message = tg.message

-----------------------------------------------------------------------------
(* C16 *)

\* createPremint of flow f returned.
Succeeded(f) == Creating(f) /\ pc[f] = "done" /\ result[f].returned # Undefined

\* C16: when createPremint returns, the address part of the collect URL is
\* the address the flow's getContractAddress read answered, its uid part is
\* the uid the flow signed, the returned uid and newContractAddress are those
\* two values, and the host has the "testnet." prefix exactly when the
\* network of the instance is a testnet.
C16_CollectUrl ==
  \A f \in Flows :
    Succeeded(f) =>
      LET ret == result[f].returned[1]
      IN  /\ Len(ret.url) = 8
          /\ ResolvedAddresses(f) = {ret.url[6]}
          /\ ret.url[8] = SignedUid(f)
          /\ GaveUid(f) => ret.url[8] = args[f].executionSettings[1].uid[1]
          /\ (~GaveUid(f)) =>
               /\ UidAnswers(f) # {}
               /\ \A k \in UidAnswers(f) :
                    calls[f][k].data.body.next_uid = Some(ret.url[8])
          /\ ret.uid = ret.url[8]
          /\ ret.newContractAddress = ret.url[6]
          /\ (ret.url[2] = "testnet.") <=> This(f).network.isTestnet
          /\ ret.url[2] \in {"testnet.", ""}
          /\ ret.url[1] = "https://" /\ ret.url[7] = "/premint-"

\* A createPremint returned on a testnet instance with a uid the registry
\* allocated.
C16_Witness ==
  \E f \in Flows :
    /\ Succeeded(f)
    /\ This(f).network.isTestnet
    /\ ~GaveUid(f)
    /\ result[f].returned[1].url[2] = "testnet."

\* A createPremint returned on a mainnet instance.
C16_WitnessMainnet ==
  \E f \in Flows :
    /\ Succeeded(f)
    /\ ~This(f).network.isTestnet
    /\ result[f].returned[1].url[2] = ""

-----------------------------------------------------------------------------
(* C17 *)

\* The configs flow f asked the wallet to sign.
SignedConfigs(f) == {td.message : td \in SignRequests(f)}

\* The signatures the wallet returned to flow f.
WalletReturned(f) ==
  {calls[f][k].data.value :
     k \in {j \in DOMAIN calls[f] :
              IsResponse(calls[f][j], "signTypedData") /\ calls[f][j].data.ok}}

\* The deleted flag the caller of createPremint asked for, false by default.
CallerDeleted(f) ==
  /\ args[f].executionSettings # Undefined
  /\ args[f].executionSettings[1].deleted = Some(TRUE)

\* C17: the premint of every POST body of a createPremint flow is the API
\* encoding of the one config the flow asked the wallet to sign, and decodes
\* back to it (same tokenConfig, uid, version 1 and deleted, deleted being
\* the caller's setting or false); with verification on, the isValidSignature
\* read was about that config and that signature; the signature of the body
\* is the one the wallet returned; chain_name is the instance's backend name.
C17_PostedIsSigned ==
  \A f \in Flows :
    Creating(f) =>
      /\ \A c \in SignedConfigs(f) :
           /\ c.version = 1
           /\ c.deleted = CallerDeleted(f)
           /\ DOMAIN c = {"tokenConfig", "uid", "version", "deleted"}
      /\ \A k \in RequestsOf(f, "isValidSignature") :
           /\ SignedConfigs(f) = {calls[f][k].data.args[2]}
           /\ WalletReturned(f) = {calls[f][k].data.args[3]}
           /\ calls[f][k].data.args[1] = args[f].collection
      /\ \A k \in RequestsOf(f, "POST") :
           LET body == calls[f][k].data.body
           IN  /\ Cardinality(SignedConfigs(f)) = 1
               /\ \A c \in SignedConfigs(f) :
                    /\ body.premint = encodePremintForAPI(c)
                    /\ convertPremint(body.premint) = c
                    /\ body.premint.uid = c.uid
                    /\ body.premint.version = 1
                    /\ body.premint.deleted = CallerDeleted(f)
               /\ WalletReturned(f) = {body.signature}
               /\ body.chain_name = This(f).network.zoraBackendChainName
               /\ body.collection = args[f].collection
               /\ VerificationOn(f) => RequestsOf(f, "isValidSignature") # {}

\* A flow with verification on whose caller asked for deleted = true posted
\* its record.
C17_Witness ==
  \E f \in Flows :
    /\ Creating(f)
    /\ VerificationOn(f)
    /\ CallerDeleted(f)
    /\ RequestsOf(f, "isValidSignature") # {}
    /\ RequestsOf(f, "POST") # {}

-----------------------------------------------------------------------------
(* C18 *)

\* Before entry k of its log, flow f was told that signature sg over config
\* c is valid.
VerifiedConfigBefore(f, k, c, sg) ==
  \E i \in 1..(k - 1), j \in 1..(k - 1) :
    /\ i < j
    /\ IsRequest(calls[f][i], "isValidSignature")
    /\ calls[f][i].data.args[2] = c
    /\ calls[f][i].data.args[3] = sg
    /\ IsResponse(calls[f][j], "isValidSignature")
    /\ calls[f][j].data.ok /\ calls[f][j].data.isValid

\* C18: in a createPremint flow with checkSignature true or omitted, every
\* POST follows an isValidSignature read about the signed config and the
\* wallet's signature that answered true, and the read is issued as soon as
\* the wallet has signed; with checkSignature false no isValidSignature read
\* is ever issued and the wallet's signature is followed directly by the POST
\* of the signed record.
C18_VerificationGate ==
  \A f \in Flows :
    Creating(f) =>
      /\ (args[f].checkSignature \in {Undefined, Some(TRUE)}) =>
           /\ \A k \in RequestsOf(f, "POST") :
                \A c \in SignedConfigs(f), sg \in WalletReturned(f) :
                  VerifiedConfigBefore(f, k, c, sg)
           /\ \A k \in DOMAIN calls[f] :
                (IsResponse(calls[f][k], "signTypedData") /\ calls[f][k].data.ok) =>
                  /\ k < Len(calls[f])
                  /\ IsRequest(calls[f][k + 1], "isValidSignature")
      /\ (args[f].checkSignature = Some(FALSE)) =>
           /\ ~Issued(f, "isValidSignature")
           /\ \A k \in DOMAIN calls[f] :
                (IsResponse(calls[f][k], "signTypedData") /\ calls[f][k].data.ok) =>
                  /\ k < Len(calls[f])
                  /\ IsRequest(calls[f][k + 1], "POST")
                  /\ calls[f][k + 1].data.body.signature = calls[f][k].data.value
                  /\ \A c \in SignedConfigs(f) :
                       calls[f][k + 1].data.body.premint = encodePremintForAPI(c)

\* A flow whose caller left checkSignature out posted after a read that
\* answered true.
C18_Witness ==
  \E f \in Flows :
    /\ Creating(f)
    /\ args[f].checkSignature = Undefined
    /\ \E k \in RequestsOf(f, "POST") : VerifiedBefore(f, k)

\* A flow with checkSignature false posted without any read.
C18_WitnessOff ==
  \E f \in Flows :
    /\ Creating(f)
    /\ args[f].checkSignature = Some(FALSE)
    /\ RequestsOf(f, "POST") # {}
    /\ ~Issued(f, "isValidSignature")

-----------------------------------------------------------------------------
(* Two flows in flight on one instance: every operation, with a narrow set   *)
(* of caller inputs and of external answers.                                 *)

ConcChains == {zoraTestnet_id, zora_id}

ConcCreateArgs ==
  [account : Accounts, collection : Collections,
   mint : {[tokenURI |-> "ipfs://t"]},
   publicClient : {Undefined},
   executionSettings : {Undefined, Some([deleted |-> Some(TRUE), uid |-> Some(2)])},
   checkSignature : {Undefined, Some(FALSE)}]

ConcNextUidAnswers ==
  {r \in NextUidAnswers :
     r.ok /\ r.json /\ r.status = 200 /\ r.body.next_uid \in {Some(1), Some(2)}}

ConcValidityReads == {r \in ValidityReads : r.ok}

ConcPostAnswers == {r \in PostAnswers : r.ok /\ r.json}

ConcRecordAnswers == {r \in RecordAnswers : r.ok /\ r.json}

ConcExecuteArgs ==
  {a \in ExecuteArgs :
     /\ ~ConvertThrows(a.data)
     /\ a.data.premint.tokenConfig.pricePerToken = <<1>>
     /\ a.account = Undefined
     /\ a.mintArguments.quantityToMint \in {BigIntOfNumber(1), BigIntOfNumber(2)}}

InitConc ==
  /\ api = [i \in Insts |-> Undefined]
  /\ ctorError = [i \in Insts |-> Undefined]
  /\ active = Flows
  /\ InitFlows
  /\ pure = NoPure

NextConc ==
  \/ \E i \in Insts, c \in ConcChains : Construct(i, [id |-> c])
  \/ \E f \in Flows, i \in Insts, a \in ConcCreateArgs : CreatePremint(f, i, a)
  \/ \E f \in Flows, r \in {x \in ContractAddressReads : x.ok} :
       ContractAddressAnswers(f, r)
  \/ \E f \in Flows, r \in ConcNextUidAnswers : NextUidAnswersFlow(f, r)
  \/ \E f \in Flows, r \in {x \in WalletSignatures : x.ok} : SignatureAnswers(f, r)
  \/ \E f \in Flows, r \in ConcValidityReads : ValidityAnswers(f, r)
  \/ \E f \in Flows, r \in ConcPostAnswers : PostAnswersFlow(f, r)
  \/ \E f \in Flows, i \in Insts : GetPremintData(f, i, toLowerCase("0xC011Ec7A"), 1)
  \/ \E f \in Flows, r \in ConcRecordAnswers : RecordAnswersFlow(f, r)
  \/ \E f \in Flows, i \in Insts, d \in {x \in RecordData : ~ConvertThrows(x)} :
       IsValidSignature(f, i, [data |-> d, publicClient |-> [source |-> "caller"]])
  \/ \E f \in Flows, r \in ConcValidityReads : ValidityAnswersMethod(f, r)
  \/ \E f \in Flows, i \in Insts, a \in ConcExecuteArgs :
       ExecutePremintWithWallet(f, i, a)
  \/ \E f \in Flows, reverted \in BOOLEAN : SimulationAnswers(f, reverted)
  \/ \E f \in Flows, failed \in BOOLEAN : WriteAnswers(f, failed)
  \/ \E f \in Flows : Forget(f)

SpecConc == InitConc /\ [][NextConc]_vars

-----------------------------------------------------------------------------
(* C14 *)

\* The non-zero uids the registry's next_uid answers gave flow f.
AllocatedUids(f) ==
  {calls[f][k].data.body.next_uid[1] :
     k \in {j \in UidAnswers(f) :
              /\ calls[f][j].data.ok /\ calls[f][j].data.json
              /\ ~FalsyNumber(calls[f][j].data.body.next_uid)}}

\* Flows f and g create on the same instance for the same collection address
\* without a uid of their own and were allocated the same uid.
SameAllocation(f, g) ==
  /\ f # g
  /\ Creating(f) /\ Creating(g)
  /\ ~GaveUid(f) /\ ~GaveUid(g)
  /\ self[f] = self[g]
  /\ args[f].collection = args[g].collection
  /\ ResolvedAddresses(f) # {} /\ ResolvedAddresses(f) = ResolvedAddresses(g)
  /\ AllocatedUids(f) # {} /\ AllocatedUids(f) = AllocatedUids(g)

\* C14: a createPremint flow without a uid of its own signs and POSTs exactly
\* the uid its next_uid read answered, the signing request following the
\* answer at once, whatever uid another flow in flight holds; two flows
\* allocated the same uid for the same chain and collection both sign a
\* config with that uid and neither fails with an error of the client's own.
C14_NoClientReconciliation ==
  /\ \A f \in Flows :
       (Creating(f) /\ ~GaveUid(f)) =>
         /\ \A k \in UidAnswers(f) :
              LET a == calls[f][k].data
              IN  (a.ok /\ a.json /\ ~FalsyNumber(a.body.next_uid)) =>
                    /\ k < Len(calls[f])
                    /\ IsRequest(calls[f][k + 1], "signTypedData")
                    /\ calls[f][k + 1].data.typedData.message.uid = a.body.next_uid[1]
         /\ \A k \in RequestsOf(f, "POST") :
              AllocatedUids(f) = {calls[f][k].data.body.premint.uid}
  /\ \A f \in Flows, g \in Flows :
       SameAllocation(f, g) =>
         /\ {c.uid : c \in SignedConfigs(f)} = AllocatedUids(g)
         /\ result[f].thrown # Undefined =>
              /\ calls[f][Len(calls[f])].phase = "response"
              /\ \/ ~calls[f][Len(calls[f])].data.ok
                 \/ /\ IsResponse(calls[f][Len(calls[f])], "isValidSignature")
                    /\ ~calls[f][Len(calls[f])].data.isValid
                 \/ /\ IsResponse(calls[f][Len(calls[f])], "POST")
                    /\ calls[f][Len(calls[f])].data.status # 200

\* Two flows allocated the same uid for the same chain and collection have
\* both POSTed a record with that uid.
C14_Witness ==
  \E f \in Flows, g \in Flows :
    /\ SameAllocation(f, g)
    /\ \E k \in RequestsOf(f, "POST"), j \in RequestsOf(g, "POST") :
         /\ calls[f][k].data.body.premint.uid = calls[g][j].data.body.premint.uid
         /\ calls[f][k].data.body.chain_name = calls[g][j].data.body.chain_name
         /\ calls[f][k].data.body.collection = calls[g][j].data.body.collection

\* Both flows hold the same allocated uid and neither has POSTed yet.
C14_WitnessBothRead ==
  \E f \in Flows, g \in Flows :
    /\ SameAllocation(f, g)
    /\ pc[f] = "signTypedData" /\ pc[g] = "signTypedData"
    /\ ~Issued(f, "POST") /\ ~Issued(g, "POST")

-----------------------------------------------------------------------------
(* C15 *)

\* Everything the model holds for the call in flow f.
FlowState(f) == <<op[f], pc[f], self[f], args[f], loc[f], calls[f], result[f]>>

\* The uids flow f can sign on its own account: the caller's, or the one its
\* own next_uid read answered.
OwnUids(f) ==
  IF GaveUid(f) THEN {args[f].executionSettings[1].uid[1]} ELSE AllocatedUids(f)

\* The configs a createPremint flow signs when run alone: built from its own
\* arguments, its instance and the answers in its own log.
OwnConfigs(f) ==
  {[tokenConfig |-> BuildTokenConfig(This(f), args[f].account, args[f].mint),
    uid |-> u, version |-> 1, deleted |-> CallerDeleted(f)] : u \in OwnUids(f)}

\* The records a createPremint flow submits when run alone.
OwnRecords(f) ==
  {[collection |-> args[f].collection, premint |-> encodePremintForAPI(c),
    chain_name |-> This(f).network.zoraBackendChainName, signature |-> sg] :
     c \in OwnConfigs(f), sg \in WalletReturned(f)}

\* The last entry of the log of flow f.
LastCall(f) == calls[f][Len(calls[f])]

\* What the four operations return when run alone against the answers in the
\* log of flow f.
OwnResults(f) ==
  IF Creating(f)
    THEN {[url |-> CollectUrl(This(f), ad, u), uid |-> u, newContractAddress |-> ad,
           premint |-> LastCall(f).data.body] :
            ad \in ResolvedAddresses(f), u \in OwnUids(f)}
  ELSE IF op[f] = "getPremintData" THEN {LastCall(f).data.body}
  ELSE IF op[f] = "isValidSignature"
    THEN {[isValid |-> LastCall(f).data.isValid,
           contractAddress |-> LastCall(f).data.contractAddress,
           recoveredSigner |-> LastCall(f).data.recoveredSigner]}
  ELSE {[hash |-> "0xTx"]}

\* The signed config, the submitted record, the payment value and the result
\* of flow f are those of the flow run alone.
RunsAsAlone(f) ==
  /\ Creating(f) =>
       /\ SignedConfigs(f) \subseteq OwnConfigs(f)
       /\ \A k \in RequestsOf(f, "isValidSignature") :
            /\ calls[f][k].data.args[2] \in OwnConfigs(f)
            /\ calls[f][k].data.args[3] \in WalletReturned(f)
       /\ \A k \in RequestsOf(f, "POST") : calls[f][k].data.body \in OwnRecords(f)
       /\ Cardinality(OwnConfigs(f)) <= 1 /\ Cardinality(OwnRecords(f)) <= 1
  /\ Executing(f) =>
       \A k \in RequestsOf(f, "simulateContract") \cup RequestsOf(f, "writeContract") :
         /\ calls[f][k].data.value = PaymentValue(This(f), args[f])
         /\ calls[f][k].data.args[2] = convertPremint(args[f].data.premint)
         /\ calls[f][k].data.args[4] = args[f].mintArguments.quantityToMint
  /\ (op[f] # "idle" /\ result[f].returned # Undefined) =>
       /\ calls[f] # << >>
       /\ LastCall(f).phase = "response"
       /\ result[f].returned[1] \in OwnResults(f)
       /\ Cardinality(OwnResults(f)) = 1

\* A step leaves a constructed instance as it is, and the call of at most one
\* flow moves.
OneFlowSteps ==
  /\ \A i \in Insts : api[i] # Undefined => api'[i] = api[i]
  /\ \A f \in Flows, g \in Flows :
       (f # g /\ FlowState(f)' # FlowState(f)) => FlowState(g)' = FlowState(g)

\* C15: with two calls in flight on one instance, no step of any operation
\* changes the network, chain or rewardPerToken of a constructed instance, a
\* step of one flow changes nothing of the other, and in every interleaving
\* each flow's signed config, submitted record, payment value and result are
\* those its own arguments and the answers to its own requests determine.
C15_ConcurrentUseSafe ==
  /\ [](\A f \in Flows : RunsAsAlone(f))
  /\ [][OneFlowSteps]_vars

\* Two createPremint calls on the one instance, in flight together and then
\* both returned, signed different uids with different signatures.
C15_Witness ==
  \E f \in Flows, g \in Flows :
    /\ f # g
    /\ Succeeded(f) /\ Succeeded(g)
    /\ self[f] = self[g]
    /\ SignedUid(f) # SignedUid(g)
    /\ WalletReturned(f) # WalletReturned(g)
    /\ LastCall(f).data.status = 200 /\ LastCall(g).data.status = 200

\* A createPremint and an executePremintWithWallet are past their first
\* request on the one instance at the same time.
C15_WitnessMixed ==
  \E f \in Flows, g \in Flows :
    /\ Creating(f) /\ Issued(f, "POST") /\ pc[f] = "post"
    /\ Executing(g) /\ pc[g] = "writeContract" /\ Issued(g, "simulateContract")
    /\ self[f] = self[g]

=============================================================================
